---------------------------- MODULE Spec2Model ----------------------------
(***************************************************************************)
(* Model of the Kinde workflow examples: the handlers of                  *)
(* src/postUserAuthentication, src/unnamed and src/userTokens.  Every     *)
(* handler is a stateless function of one event; a behaviour of the model *)
(* is one invocation of one handler on one event, under one               *)
(* configuration.                                                          *)
(*                                                                         *)
(* JavaScript strings are sequences of one-character strings, so that     *)
(* trim, toLowerCase, split and join are computed, not assumed.  An       *)
(* optional value (a field that may be undefined) is a sequence of length *)
(* 0 (undefined) or 1 (the value).                                         *)
(***************************************************************************)
EXTENDS Naturals, Sequences, FiniteSets, TLC

VARIABLES
    handler,    \* the handler that was invoked ("none" before the invocation)
    event,      \* the event it was invoked with
    env,        \* the environment variables of the deployment
    config,     \* the configuration block of the IP allowlist handler
    calls,      \* the management API calls issued, in order
    denied,     \* the reasons passed to denyAccess, in order
    outcome,    \* "idle", "returned" (completed normally) or "raised"
    error,      \* the exception handed to the host when outcome = "raised"
    log,        \* the console output, in order
    accessToken, \* the custom claims set on Kinde's access token
    idToken,    \* the custom claims set on Kinde's ID token
    user,       \* the user record the billing handler read
    pending,    \* the management API reads in flight
    completed,  \* the reads that completed and how, in the order they completed
    received    \* the responses of the reads that succeeded

\* the state of the billing handler between its awaits
billingVars == <<user, pending, completed, received>>

vars == <<handler, event, env, config, calls, denied, outcome, error, log, accessToken, idToken,
          user, pending, completed, received>>

-----------------------------------------------------------------------------
(* Optional values *)

undefined == <<>>

Some(x) == <<x>>

IsDefined(o) == Len(o) = 1

Get(o) == o[1]

Opt(S) == {undefined} \cup {Some(x) : x \in S}

-----------------------------------------------------------------------------
(* Strings *)

UpperLetters == <<"A","B","C","D","E","F","G","H","I","J","K","L","M",
                  "N","O","P","Q","R","S","T","U","V","W","X","Y","Z">>

LowerLetters == <<"a","b","c","d","e","f","g","h","i","j","k","l","m",
                  "n","o","p","q","r","s","t","u","v","w","x","y","z">>

Digits == {"0","1","2","3","4","5","6","7","8","9"}

WhiteSpace == {" ", "\t", "\n"}

IndexOf(c, letters) == CHOOSE i \in 1..Len(letters) : letters[i] = c

InSeq(c, letters) == \E i \in 1..Len(letters) : letters[i] = c

LowerChar(c) == IF InSeq(c, UpperLetters) THEN LowerLetters[IndexOf(c, UpperLetters)] ELSE c

UpperChar(c) == IF InSeq(c, LowerLetters) THEN UpperLetters[IndexOf(c, LowerLetters)] ELSE c

\* String.prototype.toLowerCase
ToLowerCase(s) == [i \in 1..Len(s) |-> LowerChar(s[i])]

ToUpperCase(s) == [i \in 1..Len(s) |-> UpperChar(s[i])]

RECURSIVE TrimStart(_)
TrimStart(s) == IF s # <<>> /\ Head(s) \in WhiteSpace THEN TrimStart(Tail(s)) ELSE s

RECURSIVE TrimEnd(_)
TrimEnd(s) ==
    IF s # <<>> /\ s[Len(s)] \in WhiteSpace THEN TrimEnd(SubSeq(s, 1, Len(s) - 1)) ELSE s

\* String.prototype.trim
Trim(s) == TrimEnd(TrimStart(s))

\* the position of the first occurrence of sep in s, Len(s) + 1 when there is none
RECURSIVE FirstIndex(_, _, _)
FirstIndex(s, sep, i) ==
    IF i > Len(s) \/ s[i] = sep THEN i ELSE FirstIndex(s, sep, i + 1)

\* String.prototype.split on a one-character separator
RECURSIVE Split(_, _)
Split(s, sep) ==
    LET i == FirstIndex(s, sep, 1)
    IN  IF i > Len(s) THEN <<s>>
        ELSE <<SubSeq(s, 1, i - 1)>> \o Split(SubSeq(s, i + 1, Len(s)), sep)

\* Array.prototype.join
RECURSIVE Join(_, _)
Join(parts, delim) ==
    IF parts = <<>> THEN <<>>
    ELSE IF Len(parts) = 1 THEN parts[1]
    ELSE parts[1] \o delim \o Join(Tail(parts), delim)

\* Array.prototype.includes
Includes(list, x) == \E i \in 1..Len(list) : list[i] = x

\* Array.prototype.flat on a sequence of sequences
RECURSIVE Flat(_)
Flat(lists) == IF lists = <<>> THEN <<>> ELSE Head(lists) \o Flat(Tail(lists))

\* all sequences over S of length at most n
SeqUpTo(S, n) == UNION {[1..k -> S] : k \in 0..n}

-----------------------------------------------------------------------------
(* String literals of the sources *)

IP_64_227_0_197 == <<"6","4",".","2","2","7",".","0",".","1","9","7">>

IP_8_8_8_8 == <<"8",".","8",".","8",".","8">>

IP_10_0_0_1 == <<"1","0",".","0",".","0",".","1">>

IP_999_1_1_1 == <<"9","9","9",".","1",".","1",".","1">>

IP_127_0_0_1 == <<"1","2","7",".","0",".","0",".","1">>

STR_unknown == <<"u","n","k","n","o","w","n">>

STR_localhost == <<"l","o","c","a","l","h","o","s","t">>

COMMA == <<",">>

SPACE == <<" ">>

-----------------------------------------------------------------------------
(* Events: the fields of onPostAuthenticationEvent the handlers read *)

NoEvent == [request |-> undefined, connectionId |-> undefined,
            provider |-> undefined, userId |-> undefined,
            isNewUserRecordCreated |-> undefined]

NoError == [text |-> "", arg |-> <<>>]

-----------------------------------------------------------------------------
(* checkIPAgainstAllowlistWorkflow.ts *)

\* the configuration block as committed
allowList == <<IP_64_227_0_197>>

testFalsePositive == TRUE

ShippedConfig == [allowList |-> allowList, testFalsePositive |-> testFalsePositive]

\* one alternative of the octet pattern 25[0-5]|2[0-4][0-9]|[01]?[0-9][0-9]?
IsOctet(o) ==
    \/ Len(o) = 3 /\ o[1] = "2" /\ o[2] = "5" /\ o[3] \in {"0","1","2","3","4","5"}
    \/ Len(o) = 3 /\ o[1] = "2" /\ o[2] \in {"0","1","2","3","4"} /\ o[3] \in Digits
    \/ /\ Len(o) \in {1, 2, 3}
       /\ \A i \in 1..Len(o) : o[i] \in Digits
       /\ Len(o) = 3 => o[1] \in {"0", "1"}

\* ipv4Regex.test(ip): four octets separated by three dots, nothing else
ipv4Regex(ip) ==
    LET parts == Split(ip, ".")
    IN  Len(parts) = 4 /\ \A i \in 1..4 : IsOctet(parts[i])

isValidIpAddress(ip) ==
    IF ip = STR_unknown \/ ip = STR_localhost \/ ip = IP_127_0_0_1 THEN FALSE
    ELSE ipv4Regex(ip)

\* a validation that checks only that the list is non-empty
validateAllowList_NonEmptyOnly(list) ==
    IF Len(list) = 0
    THEN Some([text |-> "Allowlist must be a non-empty array.", arg |-> <<>>])
    ELSE undefined

\* the Error validateAllowList throws, undefined when it returns
validateAllowList(list) ==
    IF Len(list) = 0
    THEN Some([text |-> "Allowlist must be a non-empty array.", arg |-> <<>>])
    ELSE LET bad == {i \in 1..Len(list) : ~isValidIpAddress(list[i])}
         IN  IF bad = {} THEN undefined
             ELSE LET first == CHOOSE i \in bad : \A j \in bad : i <= j
                  IN  Some([text |-> "Invalid IP address in allowlist: ${ip}",
                            arg |-> list[first]])

\* what the host's denyAccess raises when it raises
DenyAccessError == [text |-> "denyAccess raised", arg |-> <<>>]

\* the host's denyAccess as its contract describes it: every call returns
DenyAccessReturns == <<FALSE, FALSE>>

\* a host whose denyAccess may raise: one answer for each of the two call
\* sites an invocation can reach (inside the try block, inside the catch block)
DenyAccessAnswers == [1..2 -> BOOLEAN]

\* event.request is undefined: reading .ip is a TypeError
RequestTypeError == [text |-> "Cannot read properties of undefined (reading 'ip')", arg |-> <<>>]

BlockedReason(err) ==
    [text |-> "Access blocked due to an issue: ${errorMessage}", arg |-> err.arg, message |-> err.text]

InvalidIpReason == [text |-> "Access denied: Invalid or private IP address.", arg |-> <<>>, message |-> ""]

NotInAllowlistReason(ip) ==
    [text |-> "Access denied: IP address ${ip} is not in the allowlist.", arg |-> ip, message |-> ""]

\* a catch block that only logs
handleExceptionError_LogOnly(err, logged, deniedSoFar, denyRaises) ==
    [denied |-> deniedSoFar, outcome |-> "returned", error |-> NoError,
     log |-> logged \o <<"error: Check Againts IP Address Workflow Error">>]

\* the catch block: handleExceptionError(error.message, error), whose denyAccess
\* may itself raise, and then nothing catches it.  denyRaises[n] tells whether
\* the n-th denyAccess call of the invocation raises; denied lists the calls made.
handleExceptionError(err, logged, deniedSoFar, denyRaises) ==
    LET raises == denyRaises[Len(deniedSoFar) + 1]
    IN  [denied |-> deniedSoFar \o <<BlockedReason(err)>>,
         outcome |-> IF raises THEN "raised" ELSE "returned",
         error |-> IF raises THEN DenyAccessError ELSE NoError,
         log |-> logged \o <<"error: Check Againts IP Address Workflow Error">>]

\* denyAccess(reason); return;  inside the try block
DenyAndReturn(reason, logged, denyRaises) ==
    IF denyRaises[1]
    THEN handleExceptionError(DenyAccessError, logged, <<reason>>, denyRaises)
    ELSE [denied |-> <<reason>>, outcome |-> "returned", error |-> NoError, log |-> logged]

\* event.request.ip?.split(',')[0].trim() ?? 'unknown'
ExtractIp(request) ==
    IF IsDefined(request.ip) THEN Trim(Split(Get(request.ip), ",")[1]) ELSE STR_unknown

\* the IP that is validated and tested: the test override replaces the request's
EffectiveIp(request, cfg) ==
    IF cfg.testFalsePositive THEN IP_64_227_0_197 ELSE ExtractIp(request)

\* handlePostAuth of the allowlist workflow, as a function of its inputs
CheckIPAgainstAllowlist(ev, cfg, denyRaises) ==
    LET started == <<"log: Check IP Against Allowlist Workflow started">>
        invalid == validateAllowList(cfg.allowList)
    IN  IF IsDefined(invalid)
        THEN handleExceptionError(Get(invalid), started, <<>>, denyRaises)
        ELSE IF ~IsDefined(ev.request)
        THEN handleExceptionError(RequestTypeError, started, <<>>, denyRaises)
        ELSE LET ip == EffectiveIp(Get(ev.request), cfg)
                 overridden == IF cfg.testFalsePositive
                               THEN started \o <<"log: Test false positive is enabled. Overriding IP for testing purposes.">>
                               ELSE started
             IN  IF ~isValidIpAddress(ip)
                 THEN DenyAndReturn(InvalidIpReason,
                        overridden \o <<"warn: Invalid or private IP address detected">>, denyRaises)
                 ELSE LET passed == overridden \o <<"log: Allowlist and IP address validation passed.">>
                      IN  IF ~Includes(cfg.allowList, ip)
                          THEN DenyAndReturn(NotInAllowlistReason(ip),
                                 passed \o <<"warn: IP address is not in the allowlist">>, denyRaises)
                          ELSE [denied |-> <<>>, outcome |-> "returned", error |-> NoError,
                                log |-> passed \o <<"log: IP check completed successfully. Access granted.">>]

\* allowlist entries and header tokens the model draws from
AllowListEntries == {IP_64_227_0_197, IP_8_8_8_8, IP_999_1_1_1, STR_localhost}

MaxAllowList == 2

AllowLists == SeqUpTo(AllowListEntries, MaxAllowList)

HeaderTokens == {IP_64_227_0_197, SPACE \o IP_64_227_0_197 \o SPACE, IP_8_8_8_8,
                 STR_unknown, <<>>}

MaxHeaderTokens == 2

\* a header is a comma-separated list of tokens, as a proxy chain writes it
Headers == {Join(ts, COMMA) : ts \in SeqUpTo(HeaderTokens, MaxHeaderTokens)}

Requests == {undefined} \cup {Some([ip |-> h]) : h \in Opt(Headers)}

handlePostAuth_checkIPAgainstAllowlist ==
    /\ handler = "none"
    /\ \E cfg \in [allowList : AllowLists, testFalsePositive : BOOLEAN],
          req \in Requests :
         LET ev == [NoEvent EXCEPT !.request = req]
             \* denyAccess signals the denial to the host and returns
             r == CheckIPAgainstAllowlist(ev, cfg, DenyAccessReturns)
         IN  /\ handler' = "checkIPAgainstAllowlist"
             /\ event' = ev
             /\ config' = cfg
             /\ denied' = r.denied
             /\ outcome' = r.outcome
             /\ error' = r.error
             /\ log' = r.log
             /\ UNCHANGED <<env, calls, accessToken, idToken, billingVars>>

\* the same handler on a host whose denyAccess is not known to return
handlePostAuth_denyAccessMayRaise ==
    /\ handler = "none"
    /\ \E cfg \in [allowList : AllowLists, testFalsePositive : BOOLEAN],
          req \in Requests, denyRaises \in DenyAccessAnswers :
         LET ev == [NoEvent EXCEPT !.request = req]
             r == CheckIPAgainstAllowlist(ev, cfg, denyRaises)
         IN  /\ handler' = "checkIPAgainstAllowlist"
             /\ event' = ev
             /\ config' = cfg
             /\ denied' = r.denied
             /\ outcome' = r.outcome
             /\ error' = r.error
             /\ log' = r.log
             /\ UNCHANGED <<env, calls, accessToken, idToken, billingVars>>

-----------------------------------------------------------------------------
(* The SAML attribute sync handlers: shared parts *)

STR_phone_number == <<"p","h","o","n","e","_","n","u","m","b","e","r">>

STR_phone == <<"p","h","o","n","e">>

STR_mobilephone == <<"m","o","b","i","l","e","p","h","o","n","e">>

STR_user_type == <<"u","s","e","r","_","t","y","p","e">>

STR_usertype == <<"u","s","e","r","t","y","p","e">>

STR_groups == <<"g","r","o","u","p","s">>

STR_group == <<"g","r","o","u","p">>

\* a Record<string, string> with no key
EmptyProperties == [k \in {} |-> <<>>]

\* properties[key] = value
SetProperty(properties, key, value) == (key :> value) @@ properties

\* what a rejected management API promise raises
ApiError(step) == [text |-> step, arg |-> <<>>]

UserIdTypeError == [text |-> "Cannot read properties of undefined (reading 'id')", arg |-> <<>>]

ProviderTypeError == [text |-> "Cannot read properties of undefined (reading 'protocol')", arg |-> <<>>]

\* the handler returned before any outbound call
Skipped == [calls |-> <<>>, outcome |-> "returned", error |-> NoError, log |-> <<>>]

CreateKindeAPICall == [op |-> "createKindeAPI"]

\* kindeAPI.patch({endpoint: `users/${userId}/properties`, params: {properties}})
PatchUserProperties(userId, properties) ==
    [op |-> "patch", endpoint |-> "users/${userId}/properties", userId |-> userId,
     properties |-> properties]

\* const kindeAPI = await createKindeAPI(event); ... await kindeAPI.<request>
\* with no try around them: a rejection of either is raised to the host.
\* api is the host's answer: "ok", "createFails" or "requestFails".
IssueRequest(request, api) ==
    IF api = "createFails"
    THEN [calls |-> <<CreateKindeAPICall>>, outcome |-> "raised",
          error |-> ApiError("createKindeAPI rejected"), log |-> <<>>]
    ELSE IF api = "requestFails"
    THEN [calls |-> <<CreateKindeAPICall, request>>, outcome |-> "raised",
          error |-> ApiError("management API request rejected"), log |-> <<>>]
    ELSE [calls |-> <<CreateKindeAPICall, request>>, outcome |-> "returned",
          error |-> NoError, log |-> <<>>]

\* attributeStatements.flatMap((s) => s.attributes ?? [])
FlatAttributes(statements) ==
    Flat([i \in 1..Len(statements) |->
            IF IsDefined(statements[i].attributes) THEN Get(statements[i].attributes)
            ELSE <<>>])

\* attr.name?.toLowerCase().trim()
NormalizedName_NoTrim(attr) ==
    IF IsDefined(attr.name) THEN Some(ToLowerCase(Get(attr.name))) ELSE undefined

NormalizedName(attr) ==
    IF IsDefined(attr.name) THEN Some(Trim(ToLowerCase(Get(attr.name)))) ELSE undefined

\* a value that is a non-empty string: !!v
IsTruthy(v) == IsDefined(v) /\ Get(v) # <<>>

\* (attr.values ?? []).map((v) => v.value?.trim()).filter((v) => !!v)
TrimmedValues(attr) ==
    LET values == IF IsDefined(attr.values) THEN Get(attr.values) ELSE <<>>
        trimmed == [i \in 1..Len(values) |->
                      IF IsDefined(values[i].value) THEN Some(Trim(Get(values[i].value)))
                      ELSE undefined]
        kept == SelectSeq(trimmed, IsTruthy)
    IN  [i \in 1..Len(kept) |-> Get(kept[i])]

\* a reducer that keeps the first values stored under a name
ReduceAttribute_KeepFirst(acc, attr) ==
    LET name == NormalizedName(attr)
        values == TrimmedValues(attr)
    IN  IF IsTruthy(name) /\ Len(values) > 0 /\ Get(name) \notin DOMAIN acc
        THEN (Get(name) :> values) @@ acc
        ELSE acc

\* the reducer of samlAttributesMap: acc.set(name, values) when both are non-empty
ReduceAttribute(acc, attr) ==
    LET name == NormalizedName(attr)
        values == TrimmedValues(attr)
    IN  IF IsTruthy(name) /\ Len(values) > 0 THEN (Get(name) :> values) @@ acc ELSE acc

\* .reduce(..., new Map<string, string[]>()) from left to right
RECURSIVE Reduce(_, _)
Reduce(attrs, acc) ==
    IF attrs = <<>> THEN acc ELSE Reduce(Tail(attrs), ReduceAttribute(acc, Head(attrs)))

samlAttributesMap(statements) == Reduce(FlatAttributes(statements), EmptyProperties)

\* samlAttributesMap.get(name): undefined when the map has no such key
MapGet(map, name) == IF name \in DOMAIN map THEN Some(map[name]) ELSE undefined

\* the last of samlNames the map holds a non-empty list for
RECURSIVE FoundValues_LastAlias(_, _)
FoundValues_LastAlias(map, samlNames) ==
    IF samlNames = <<>> THEN undefined
    ELSE LET values == MapGet(map, samlNames[Len(samlNames)])
         IN  IF IsDefined(values) /\ Len(Get(values)) > 0 THEN values
             ELSE FoundValues_LastAlias(map, SubSeq(samlNames, 1, Len(samlNames) - 1))

\* the values of the first of samlNames the map holds a non-empty list for
RECURSIVE FoundValues(_, _)
FoundValues(map, samlNames) ==
    IF samlNames = <<>> THEN undefined
    ELSE LET values == MapGet(map, Head(samlNames))
         IN  IF IsDefined(values) /\ Len(Get(values)) > 0 THEN values
             ELSE FoundValues(map, Tail(samlNames))

\* the value a rule writes for the values found
RuleValue_FirstOnly(rule, values) == values[1]

RuleValue(rule, values) == IF rule.multiValue THEN Join(values, COMMA) ELSE values[1]

\* the for loop over attributeSyncConfig filling propertiesToUpdate
RECURSIVE ApplyRules(_, _, _)
ApplyRules(rules, map, properties) ==
    IF rules = <<>> THEN properties
    ELSE LET rule == Head(rules)
             found == FoundValues(map, rule.samlNames)
         IN  ApplyRules(Tail(rules), map,
                        IF IsDefined(found)
                        THEN SetProperty(properties, rule.kindeKey, RuleValue(rule, Get(found)))
                        ELSE properties)

\* from "const propertiesToUpdate = {}" to the end of a map-based handler
SyncFromMap(ev, rules, api) ==
    LET statements == Get(Get(ev.provider).attributeStatements)
        propertiesToUpdate == ApplyRules(rules, samlAttributesMap(statements), EmptyProperties)
    IN  IF DOMAIN propertiesToUpdate = {} THEN Skipped
        ELSE IssueRequest(PatchUserProperties(ev.userId, propertiesToUpdate), api)

\* event.context.auth.provider?.data?.assertion?.attributeStatements, and
\* whether !attributeStatements?.length lets it through
HasAttributeStatements(ev) ==
    /\ IsDefined(ev.provider)
    /\ IsDefined(Get(ev.provider).attributeStatements)
    /\ Len(Get(Get(ev.provider).attributeStatements)) > 0

\* the gate without its first operand: connectionId === connectionIdOfEnv alone
ConnectionGate_EqualOnly(connectionId, variable) == connectionId = variable

\* if (!connectionIdOfEnv || connectionId !== connectionIdOfEnv) return;
ConnectionGate(connectionId, variable) ==
    /\ IsDefined(variable)
    /\ Get(variable) # ""
    /\ connectionId = variable

-----------------------------------------------------------------------------
(* part_001: OktaAttributesSync over samlAttributesMap, and
   createOrgOnSignupWorkflow.ts, lines 81-185: SamlAttributesSync *)

\* attributeSyncConfig with one samlName per rule (a one-alias list here)
attributeSyncConfig ==
    << [samlNames |-> <<STR_phone_number>>, kindeKey |-> "phone_number", multiValue |-> FALSE],
       [samlNames |-> <<STR_user_type>>, kindeKey |-> "user_type", multiValue |-> FALSE],
       [samlNames |-> <<STR_groups>>, kindeKey |-> "groups", multiValue |-> TRUE] >>

OktaAttributesSync_map(ev, environment, api) ==
    IF ~ConnectionGate(ev.connectionId, environment.OKTA_CONNECTION_ID) THEN Skipped
    ELSE IF ~HasAttributeStatements(ev) THEN Skipped
    ELSE SyncFromMap(ev, attributeSyncConfig, api)

\* const protocol = event.context.auth.provider.protocol, with no ?. on provider
SamlAttributesSync(ev, api) ==
    IF ~IsDefined(ev.provider)
    THEN [calls |-> <<>>, outcome |-> "raised", error |-> ProviderTypeError, log |-> <<>>]
    ELSE IF Get(ev.provider).protocol # Some("saml") THEN Skipped
    ELSE IF ~HasAttributeStatements(ev) THEN Skipped
    ELSE SyncFromMap(ev, attributeSyncConfig, api)

-----------------------------------------------------------------------------
(* syncAttributesOkta.ts, lines 132-258: SamlAttributesSync with alias lists *)

attributeSyncConfig_aliases ==
    << [samlNames |-> <<STR_phone_number, STR_phone, STR_mobilephone>>,
        kindeKey |-> "phone_number", multiValue |-> FALSE],
       [samlNames |-> <<STR_user_type, STR_usertype>>,
        kindeKey |-> "user_type", multiValue |-> FALSE],
       [samlNames |-> <<STR_groups, STR_group>>,
        kindeKey |-> "groups", multiValue |-> TRUE] >>

\* const protocol = event.context?.auth?.provider?.protocol
SamlAttributesSync_aliases(ev, api) ==
    IF ~IsDefined(ev.provider) THEN Skipped
    ELSE IF Get(ev.provider).protocol # Some("saml") THEN Skipped
    ELSE IF ~HasAttributeStatements(ev) THEN Skipped
    ELSE SyncFromMap(ev, attributeSyncConfig_aliases, api)

-----------------------------------------------------------------------------
(* syncAttributesOkta.ts, lines 1-131: OktaAttributesSync over findAttr *)

\* a.name?.toLowerCase().trim() ?? ""
FindName(attr) == IF IsDefined(NormalizedName(attr)) THEN Get(NormalizedName(attr)) ELSE <<>>

\* attrs.find(...): the first attribute whose name is one of names, lower-cased
findAttr(attrs, names) ==
    LET hits == {i \in 1..Len(attrs) :
                    \E j \in 1..Len(names) : FindName(attrs[i]) = ToLowerCase(names[j])}
    IN  IF hits = {} THEN undefined
        ELSE Some(attrs[CHOOSE i \in hits : \A j \in hits : i <= j])

\* (a?.values?.[0]?.value ?? "").toString().trim() || null
getFirstString(a) ==
    LET first == IF IsDefined(a) /\ IsDefined(Get(a).values) /\ Len(Get(Get(a).values)) > 0
                    /\ IsDefined(Get(Get(a).values)[1].value)
                 THEN Get(Get(Get(a).values)[1].value)
                 ELSE <<>>
    IN  IF Trim(first) # <<>> THEN Some(Trim(first)) ELSE undefined

IsNonEmpty(str) == str # <<>>

\* (a?.values ?? []).map((v) => (v.value ?? "").toString().trim()).filter(Boolean)
getAllStrings(a) ==
    LET values == IF IsDefined(a) /\ IsDefined(Get(a).values) THEN Get(Get(a).values) ELSE <<>>
        trimmed == [i \in 1..Len(values) |->
                      IF IsDefined(values[i].value) THEN Trim(Get(values[i].value)) ELSE <<>>]
    IN  SelectSeq(trimmed, IsNonEmpty)

\* if (value) properties[key] = value
SetIfTruthy(properties, key, value) ==
    IF IsDefined(value) THEN SetProperty(properties, key, Get(value)) ELSE properties

OktaAttributesSync_find(ev, environment, api) ==
    IF ~ConnectionGate(ev.connectionId, environment.OKTA_CONNECTION_ID) THEN Skipped
    ELSE IF ~HasAttributeStatements(ev) THEN Skipped
    ELSE LET attrs == FlatAttributes(Get(Get(ev.provider).attributeStatements))
             phoneValue == getFirstString(findAttr(attrs, <<STR_phone_number>>))
             userTypeValue == getFirstString(findAttr(attrs, <<STR_user_type>>))
             groupsArray == getAllStrings(findAttr(attrs, <<STR_groups>>))
             groupsValue == IF Len(groupsArray) > 0 THEN Some(Join(groupsArray, COMMA))
                            ELSE undefined
             properties ==
                 SetIfTruthy(SetIfTruthy(SetIfTruthy(EmptyProperties,
                     "phone_number", phoneValue), "user_type", userTypeValue),
                     "groups", groupsValue)
         IN  IF ~IsDefined(phoneValue) /\ ~IsDefined(userTypeValue) /\ ~IsDefined(groupsValue)
             THEN Skipped
             ELSE IssueRequest(PatchUserProperties(ev.userId, properties), api)

-----------------------------------------------------------------------------
(* syncUserPhoneGoogleWorkspace.ts: GoogleWorkspacePhoneSync *)

\* the characters encodeURIComponent leaves as they are, besides letters and digits
UriUnreservedMarks == {"-", "_", ".", "!", "~", "*", "'", "(", ")"}

\* the percent-encoding of the other characters the model's values hold
PercentEncoded(c) ==
    CASE c = " " -> <<"%","2","0">>
      [] c = "+" -> <<"%","2","B">>
      [] c = "," -> <<"%","2","C">>

encodeURIComponent(str) ==
    Flat([i \in 1..Len(str) |->
            IF \/ InSeq(str[i], UpperLetters) \/ InSeq(str[i], LowerLetters)
               \/ str[i] \in Digits \/ str[i] \in UriUnreservedMarks
            THEN <<str[i]>>
            ELSE PercentEncoded(str[i])])

\* kindeAPI.put({endpoint: `users/${userId}/properties/${phonePropertyKey}?value=${...}`})
PutUserProperty(userId, key, value) ==
    [op |-> "put", endpoint |-> "users/${userId}/properties/${phonePropertyKey}?value=${value}",
     userId |-> userId, properties |-> SetProperty(EmptyProperties, key, encodeURIComponent(value))]

\* phoneAttr?.values?.[0]?.value?.trim() || null
FirstValueTrimmed(a) ==
    IF IsDefined(a) /\ IsDefined(Get(a).values) /\ Len(Get(Get(a).values)) > 0
       /\ IsDefined(Get(Get(a).values)[1].value)
       /\ Trim(Get(Get(Get(a).values)[1].value)) # <<>>
    THEN Some(Trim(Get(Get(Get(a).values)[1].value)))
    ELSE undefined

\* .find((a) => a.name?.toLowerCase().trim() === googlePhoneAttributeName)
FindByName(attrs, name) ==
    LET hits == {i \in 1..Len(attrs) : NormalizedName(attrs[i]) = Some(name)}
    IN  IF hits = {} THEN undefined
        ELSE Some(attrs[CHOOSE i \in hits : \A j \in hits : i <= j])

GoogleWorkspacePhoneSync(ev, environment, api) ==
    IF ~ConnectionGate(ev.connectionId, environment.GOOGLE_WORKSPACE_CONNECTION_ID) THEN Skipped
    ELSE IF ~HasAttributeStatements(ev) THEN Skipped
    ELSE LET attrs == FlatAttributes(Get(Get(ev.provider).attributeStatements))
             phoneValue == FirstValueTrimmed(FindByName(attrs, STR_phone))
         IN  IF ~IsDefined(phoneValue) THEN Skipped
             ELSE IssueRequest(PutUserProperty(ev.userId, "phone_number", Get(phoneValue)), api)

-----------------------------------------------------------------------------
(* The events the SAML handlers are invoked with *)

NAME_Phone == <<" ","P","h","o","n","e">>

NAME_Groups == <<" ","G","r","o","u","p","s"," ">>

VAL_a == <<" ","a"," ">>

VAL_plus1 == <<"+","1">>

VAL_blank == <<" ">>

VALUES_a == Some(<<[value |-> Some(VAL_a)]>>)

VALUES_missing_plus1 == Some(<<[value |-> undefined], [value |-> Some(VAL_plus1)]>>)

VALUES_plus1_blank_a ==
    Some(<<[value |-> Some(VAL_plus1)], [value |-> Some(VAL_blank)], [value |-> Some(VAL_a)]>>)

VALUES_blank == Some(<<[value |-> Some(VAL_blank)]>>)

\* the attributes an assertion is made of: names in several spellings, an
\* alias of each aliased rule, a missing name, and value lists with one, more
\* and no non-empty value
Attributes ==
    [name : {Some(STR_phone_number)}, values : {VALUES_a, VALUES_missing_plus1, undefined}]
    \cup [name : {Some(NAME_Groups)}, values : {VALUES_plus1_blank_a, VALUES_blank}]
    \cup [name : {Some(NAME_Phone)}, values : {VALUES_missing_plus1}]
    \cup [name : {Some(STR_group), Some(STR_user_type), undefined}, values : {VALUES_a}]

MaxAttributes == 2

\* the ways the model spreads a list of attributes over attribute statements
StatementsOf(attrs) ==
    IF attrs = <<>>
    THEN {<<>>, <<[attributes |-> undefined]>>, <<[attributes |-> Some(<<>>)]>>}
    ELSE {<<[attributes |-> Some(attrs)]>>}
         \cup {<<[attributes |-> Some(<<Head(attrs)>>)], [attributes |-> Some(Tail(attrs))]>> :
                 x \in IF Len(attrs) > 1 THEN {1} ELSE {}}

AttributeStatements ==
    {undefined} \cup
    {Some(sts) : sts \in UNION {StatementsOf(attrs) : attrs \in SeqUpTo(Attributes, MaxAttributes)}}

\* an assertion every handler finds something in, and a missing one
ProbeStatements ==
    { undefined,
      Some(<< [attributes |-> Some(<<
                [name |-> Some(NAME_Phone), values |-> Some(<<[value |-> Some(VAL_plus1)]>>)],
                [name |-> Some(STR_phone_number), values |-> Some(<<[value |-> Some(VAL_a)]>>)],
                [name |-> Some(NAME_Groups), values |-> Some(<<[value |-> Some(VAL_a)]>>)] >>)] >>) }

SamlProvider(protocol, statements) ==
    Some([protocol |-> protocol, provider |-> undefined, claims |-> undefined,
          attributeStatements |-> statements])

ApiOutcomes == {"ok", "createFails", "requestFails"}

UserIds == Opt({"kp_user"})

ConnectionIds == Opt({"", "conn_1", "conn_2"})

\* inputs of a connection-gated handler: every assertion behind an open gate,
\* and every gate, user and host answer with the probe assertions
ConnectionInputs ==
    {[ev |-> [NoEvent EXCEPT !.connectionId = Some("conn_1"),
                             !.provider = SamlProvider(Some("saml"), sts),
                             !.userId = Some("kp_user")],
      variable |-> Some("conn_1"), api |-> "ok"] : sts \in AttributeStatements}
    \cup
    {[ev |-> [NoEvent EXCEPT !.connectionId = in[1], !.provider = in[2], !.userId = in[3]],
      variable |-> in[4], api |-> in[5]] :
        in \in ConnectionIds
               \X ({undefined} \cup {SamlProvider(Some("saml"), sts) : sts \in ProbeStatements})
               \X UserIds \X Opt({"", "conn_1"}) \X ApiOutcomes}

Protocols == Opt({"saml", "SAML", "oauth2"})

\* inputs of a protocol-gated handler, built the same way
ProtocolInputs ==
    {[ev |-> [NoEvent EXCEPT !.provider = SamlProvider(Some("saml"), sts),
                             !.userId = Some("kp_user")],
      api |-> "ok"] : sts \in AttributeStatements}
    \cup
    {[ev |-> [NoEvent EXCEPT !.provider = in[1], !.userId = in[2]], api |-> in[3]] :
        in \in ({undefined} \cup {SamlProvider(pr, sts) : pr \in Protocols, sts \in ProbeStatements})
               \X UserIds \X ApiOutcomes}

NoEnv == [OKTA_CONNECTION_ID |-> undefined, GOOGLE_WORKSPACE_CONNECTION_ID |-> undefined]

\* one invocation: the handler's name, its inputs and what it did
Invoke(name, ev, environment, r) ==
    /\ handler' = name
    /\ event' = ev
    /\ env' = environment
    /\ calls' = r.calls
    /\ outcome' = r.outcome
    /\ error' = r.error
    /\ log' = r.log
    /\ UNCHANGED <<config, denied, accessToken, idToken, billingVars>>

handlePostAuth_OktaAttributesSync_find ==
    /\ handler = "none"
    /\ \E in \in ConnectionInputs :
         LET environment == [NoEnv EXCEPT !.OKTA_CONNECTION_ID = in.variable]
         IN  Invoke("OktaAttributesSync_find", in.ev, environment,
                    OktaAttributesSync_find(in.ev, environment, in.api))

handlePostAuth_OktaAttributesSync_map ==
    /\ handler = "none"
    /\ \E in \in ConnectionInputs :
         LET environment == [NoEnv EXCEPT !.OKTA_CONNECTION_ID = in.variable]
         IN  Invoke("OktaAttributesSync_map", in.ev, environment,
                    OktaAttributesSync_map(in.ev, environment, in.api))

handlePostAuth_GoogleWorkspacePhoneSync ==
    /\ handler = "none"
    /\ \E in \in ConnectionInputs :
         LET environment == [NoEnv EXCEPT !.GOOGLE_WORKSPACE_CONNECTION_ID = in.variable]
         IN  Invoke("GoogleWorkspacePhoneSync", in.ev, environment,
                    GoogleWorkspacePhoneSync(in.ev, environment, in.api))

handlePostAuth_SamlAttributesSync ==
    /\ handler = "none"
    /\ \E in \in ProtocolInputs :
         Invoke("SamlAttributesSync", in.ev, NoEnv, SamlAttributesSync(in.ev, in.api))

handlePostAuth_SamlAttributesSync_aliases ==
    /\ handler = "none"
    /\ \E in \in ProtocolInputs :
         Invoke("SamlAttributesSync_aliases", in.ev, NoEnv,
                SamlAttributesSync_aliases(in.ev, in.api))

-----------------------------------------------------------------------------
(* part_000 and syncAttributesEntraOAuthWorkflow.ts: MapEntraIdClaims *)

STR_microsoft == <<"m","i","c","r","o","s","o","f","t">>

STR_entra == <<"e","n","t","r","a">>

STR_azure == <<"a","z","u","r","e">>

STR_azure_ad == <<"a","z","u","r","e","_","a","d">>

STR_azuread == <<"a","z","u","r","e","a","d">>

COMMA_SPACE == <<",", " ">>

allowedProviders == {STR_microsoft, STR_entra, STR_azure, STR_azure_ad, STR_azuread}

\* claimMappings of part_000, in the order Object.entries walks it
claimMappings_full ==
    << [claim |-> "given_name", key |-> "kp_usr_first_name"],
       [claim |-> "family_name", key |-> "kp_usr_last_name"],
       [claim |-> "email", key |-> "kp_usr_email"],
       [claim |-> "name", key |-> "kp_usr_display_name"],
       [claim |-> "preferred_username", key |-> "kp_usr_username"],
       [claim |-> "oid", key |-> "entra_object_id"],
       [claim |-> "tid", key |-> "entra_tenant_id"],
       [claim |-> "upn", key |-> "entra_upn"],
       [claim |-> "unique_name", key |-> "entra_unique_name"],
       [claim |-> "jobTitle", key |-> "job_title"],
       [claim |-> "department", key |-> "department"],
       [claim |-> "officeLocation", key |-> "office_location"],
       [claim |-> "mobilePhone", key |-> "mobile_phone"],
       [claim |-> "businessPhones", key |-> "business_phones"],
       [claim |-> "city", key |-> "kp_usr_city"],
       [claim |-> "ctry", key |-> "country"],
       [claim |-> "postalCode", key |-> "postal_code"],
       [claim |-> "state", key |-> "state"],
       [claim |-> "streetAddress", key |-> "street_address"],
       [claim |-> "companyName", key |-> "company_name"],
       [claim |-> "employeeId", key |-> "employee_id"] >>

\* claimMappings of syncAttributesEntraOAuthWorkflow.ts
claimMappings ==
    << [claim |-> "given_name", key |-> "kp_usr_first_name"],
       [claim |-> "family_name", key |-> "kp_usr_last_name"],
       [claim |-> "email", key |-> "kp_usr_email"],
       [claim |-> "preferred_username", key |-> "usr_username"] >>

\* a claim value is absent, a string or an array of strings
AbsentClaim == [kind |-> "absent", str |-> <<>>, items |-> <<>>]

StringClaim(str) == [kind |-> "string", str |-> str, items |-> <<>>]

ArrayClaim(items) == [kind |-> "array", str |-> <<>>, items |-> items]

\* claims[claimName]
ClaimOf(claims, name) == IF name \in DOMAIN claims THEN claims[name] ELSE AbsentClaim

\* if (claimValue): an array is truthy even when empty, a string when non-empty
ClaimIsTruthy(value) ==
    \/ value.kind = "string" /\ value.str # <<>>
    \/ value.kind = "array"

\* Array.isArray(claimValue) ? claimValue.join(", ") : String(claimValue)
ClaimString(value) ==
    IF value.kind = "array" THEN Join(value.items, COMMA_SPACE) ELSE value.str

\* the for loop over Object.entries(claimMappings)
RECURSIVE MapClaims(_, _, _)
MapClaims(mappings, claims, properties) ==
    IF mappings = <<>> THEN properties
    ELSE LET claimValue == ClaimOf(claims, Head(mappings).claim)
         IN  MapClaims(Tail(mappings), claims,
                       IF ClaimIsTruthy(claimValue)
                       THEN SetProperty(properties, Head(mappings).key, ClaimString(claimValue))
                       ELSE properties)

\* if (Array.isArray(claims.groups)) propertiesToUpdate["entra_groups"] = ...
AddGroups(claims, properties) ==
    IF ClaimOf(claims, "groups").kind = "array"
    THEN SetProperty(properties, "entra_groups", Join(ClaimOf(claims, "groups").items, COMMA_SPACE))
    ELSE properties

\* the provider string has one of allowedProviders somewhere inside it
ProviderGate_Substring(provider) ==
    LET rawProvider == IF IsDefined(provider) /\ IsDefined(Get(provider).provider)
                       THEN Get(Get(provider).provider) ELSE <<>>
        name == ToLowerCase(rawProvider)
    IN  \E allowed \in allowedProviders :
            \E i \in 1..Len(name) :
                /\ i + Len(allowed) - 1 <= Len(name)
                /\ SubSeq(name, i, i + Len(allowed) - 1) = allowed

\* String(rawProvider).trim().toLowerCase() is one of allowedProviders
ProviderGate(provider) ==
    LET rawProvider == IF IsDefined(provider) /\ IsDefined(Get(provider).provider)
                       THEN Get(Get(provider).provider) ELSE <<>>
    IN  ToLowerCase(Trim(rawProvider)) \in allowedProviders

MissingUserIdError == [text |-> "User ID is required for claims mapping", arg |-> <<>>]

\* a check that runs after the timestamp is stored never finds an empty batch
IsEmptyBatch_AfterTimestamp(properties) == FALSE

\* Object.keys(propertiesToUpdate).length === 0, before the timestamp is stored
IsEmptyBatch(properties) == DOMAIN properties = {}

\* !userId is false: the id is a non-empty string
HasUserId(ev) == IsDefined(ev.userId) /\ Get(ev.userId) # ""

\* a gate placed after the user-id check is reached only by events that carry an id
EarlyReturn_AfterUserIdCheck(ev, ineligible) == ineligible /\ HasUserId(ev)

\* if (ineligible) { console.log(...); return; } -- both gates stand above
\* const userId = event.context?.user?.id, so they return whatever the id is
EarlyReturn(ev, ineligible) == ineligible

\* mapEntraIdClaimsWorkflow of either file; now is new Date().toISOString()
mapEntraIdClaimsWorkflow(ev, mappings, now, api) ==
    LET provider == ev.provider
        protocol == IF IsDefined(provider) /\ IsDefined(Get(provider).protocol)
                    THEN Get(Get(provider).protocol) ELSE ""
    IN  IF EarlyReturn(ev, protocol # "oauth2")
        THEN [Skipped EXCEPT !.log = <<"log: Not an OAuth2 authentication, skipping claims mapping">>]
        ELSE IF EarlyReturn(ev, ~ProviderGate(provider))
        THEN [Skipped EXCEPT !.log = <<"log: Connection provider is not an allowed Microsoft/Entra ID provider, skipping">>]
        ELSE IF ~HasUserId(ev)
        THEN [calls |-> <<>>, outcome |-> "raised", error |-> MissingUserIdError,
              log |-> <<"error: User ID is missing from event context">>]
        ELSE LET claims == IF IsDefined(Get(provider).claims) THEN Get(Get(provider).claims)
                           ELSE EmptyProperties
                 mapped == AddGroups(claims, MapClaims(mappings, claims, EmptyProperties))
                 processing == <<"log: Processing Entra ID OAuth2 claims for user">>
             IN  IF IsEmptyBatch(mapped)
                 THEN [Skipped EXCEPT !.log = processing \o
                          <<"log: Nothing to update from claims; skipping property sync">>]
                 ELSE LET propertiesToUpdate == SetProperty(mapped, "entra_last_sync", now)
                          r == IssueRequest(PatchUserProperties(ev.userId, propertiesToUpdate), api)
                      IN  [r EXCEPT !.log = processing \o
                              (IF api = "ok"
                               THEN <<"log: Successfully updated properties", "log: Completed Entra ID claims mapping">>
                               ELSE IF api = "requestFails"
                               THEN <<"error: Error updating user properties">>
                               ELSE <<>>)]

STR_Microsoft_padded == <<" ","M","i","c","r","o","s","o","f","t"," ">>

STR_not_microsoft == <<"n","o","t","-","m","i","c","r","o","s","o","f","t">>

STR_Ada == <<"A","d","a">>

ProviderNames == Opt({STR_microsoft, STR_Microsoft_padded, STR_azure_ad, STR_not_microsoft, <<>>})

MaxClaimItems == 2

ClaimValues ==
    {AbsentClaim, StringClaim(<<>>), StringClaim(STR_Ada)}
    \cup {ArrayClaim(items) : items \in SeqUpTo({<<"a">>, <<>>}, MaxClaimItems)}

ClaimNames == {"given_name", "businessPhones", "groups"}

ClaimSets == {undefined} \cup {Some(c) : c \in [ClaimNames -> ClaimValues]}

ProbeClaims ==
    { undefined,
      Some([n \in ClaimNames |-> IF n = "groups" THEN ArrayClaim(<< <<"a">> >>) ELSE StringClaim(STR_Ada)]) }

OidcProvider(protocol, name, claims) ==
    Some([protocol |-> protocol, provider |-> name, claims |-> claims,
          attributeStatements |-> undefined])

\* the instants the model lets new Date().toISOString() return (a whole string each)
Timestamps == {<<"2026-01-01T00:00:00.000Z">>}

EntraInputs ==
    {[ev |-> [NoEvent EXCEPT !.provider = OidcProvider(Some("oauth2"), Some(STR_microsoft), c),
                             !.userId = Some("kp_user")],
      api |-> "ok"] : c \in ClaimSets}
    \cup
    {[ev |-> [NoEvent EXCEPT !.provider = in[1], !.userId = in[2]], api |-> in[3]] :
        in \in ({undefined} \cup {OidcProvider(pr, n, c) : pr \in Opt({"oauth2", "OAuth2", "saml"}),
                                                           n \in ProviderNames, c \in ProbeClaims})
               \X Opt({"", "kp_user"}) \X ApiOutcomes}

mapEntraIdClaimsWorkflow_full ==
    /\ handler = "none"
    /\ \E in \in EntraInputs, now \in Timestamps :
         Invoke("MapEntraIdClaims_full", in.ev, NoEnv,
                mapEntraIdClaimsWorkflow(in.ev, claimMappings_full, now, in.api))

mapEntraIdClaimsWorkflow_oauth ==
    /\ handler = "none"
    /\ \E in \in EntraInputs, now \in Timestamps :
         Invoke("MapEntraIdClaims", in.ev, NoEnv,
                mapEntraIdClaimsWorkflow(in.ev, claimMappings, now, in.api))

-----------------------------------------------------------------------------
(* IdpTokenWorkflow.ts: IdpTokenWorkflow *)

STR_ada_at_idp == <<"a","d","a","@","i","d","p">>

\* a token with no custom claim set
NoCustomClaims == [k \in {} |-> <<>>]

\* token.<name> = value, and kinde.<token>.setCustomClaim(name, value)
SetCustomClaim(token, name, value) == (name :> value) @@ token

\* handlePostAuth: only accessTokenCustomClaims() is called and assigned to;
\* idTokenCustomClaims is imported and never used
IdpTokenWorkflow(ev) ==
    LET provider == ev.provider
        untouched == [accessToken |-> NoCustomClaims, idToken |-> NoCustomClaims]
    IN  IF ~IsDefined(provider) \/ Get(provider).protocol # Some("oauth2") THEN untouched
        ELSE LET idTokenClaims == Get(provider).claims
             IN  IF ~IsDefined(idTokenClaims) THEN untouched
                 ELSE LET email == ClaimOf(Get(idTokenClaims), "email")
                      IN  IF ClaimIsTruthy(email)
                          THEN [untouched EXCEPT
                                  !.accessToken = SetCustomClaim(@, "idp_email", email)]
                          ELSE untouched

\* the ID token claims of the identity provider: none, no email, an empty or
\* a non-empty email, alone or beside another claim
IdpClaimSets ==
    {undefined, Some(EmptyProperties), Some("name" :> StringClaim(STR_Ada))}
    \cup {Some("email" :> v) : v \in {AbsentClaim, StringClaim(<<>>), StringClaim(STR_ada_at_idp)}}
    \cup {Some(("email" :> StringClaim(STR_ada_at_idp)) @@ ("name" :> StringClaim(STR_Ada)))}

IdpInputs ==
    {[NoEvent EXCEPT !.provider = p, !.userId = u] :
        p \in {undefined} \cup {OidcProvider(pr, n, c) :
                                   pr \in Opt({"oauth2", "OAuth2", "OAUTH2", "saml"}),
                                   n \in Opt({STR_microsoft, STR_not_microsoft}),
                                   c \in IdpClaimSets},
        u \in UserIds}

handlePostAuth_IdpTokenWorkflow ==
    /\ handler = "none"
    /\ \E ev \in IdpInputs :
         LET r == IdpTokenWorkflow(ev)
         IN  /\ handler' = "IdpTokenWorkflow"
             /\ event' = ev
             /\ accessToken' = r.accessToken
             /\ idToken' = r.idToken
             /\ outcome' = "returned"
             /\ UNCHANGED <<env, config, calls, denied, error, log, billingVars>>

-----------------------------------------------------------------------------
(* addBillingDetailsToTokensB2C.ts: AddBillingDetailsToTokensB2C *)

\* no read has answered
NoResponses == [k \in {} |-> undefined]

\* ensureArray: the value when it is an array, [] otherwise
ensureArray(v) == IF IsDefined(v) THEN Get(v) ELSE <<>>

\* kindeAPI.get({endpoint: `user?id=${userId}&expand=billing`})
GetUser(userId) == [op |-> "get", endpoint |-> "user?id=${userId}&expand=billing", id |-> userId]

\* kindeAPI.get({endpoint: `billing/entitlements?customer_id=${customerId}`})
GetEntitlements(customerId) ==
    [op |-> "get", endpoint |-> "billing/entitlements?customer_id=${customerId}", id |-> customerId]

\* kindeAPI.get({endpoint: `billing/agreements?customer_id=${customerId}`})
GetAgreements(customerId) ==
    [op |-> "get", endpoint |-> "billing/agreements?customer_id=${customerId}", id |-> customerId]

\* user?.billing
BillingOf(userData) ==
    IF IsDefined(userData) THEN Get(userData).billing ELSE undefined

\* user?.billing?.customer_id ?? null
CustomerIdOf(userData) ==
    IF IsDefined(BillingOf(userData)) THEN Get(BillingOf(userData)).customer_id ELSE undefined

\* a test for null alone lets the empty customer id through
NoCustomerId_NullOnly(userData) == CustomerIdOf(userData) = undefined

\* !customerId: the id is null (absent at any level) or the empty string
NoCustomerId(userData) == CustomerIdOf(userData) \in {undefined, Some("")}

\* entResp?.data?.entitlements and agrResp?.data?.agreements
DataOf(responses, read) == IF read \in DOMAIN responses THEN responses[read] ELSE undefined

\* billingClaimObject
BillingClaim(userData, responses) ==
    [customer_id |-> Get(CustomerIdOf(userData)),
     user_billing |-> Get(BillingOf(userData)),
     entitlements |-> ensureArray(DataOf(responses, "entitlements")),
     agreements |-> ensureArray(DataOf(responses, "agreements"))]

\* a combinator that resolves with the first response
AllFulfilled_First(responses) == DOMAIN responses # {}

\* Promise.all resolves when every read has resolved
AllFulfilled(responses) == DOMAIN responses = {"entitlements", "agreements"}

\* catch (err) { console.error("Workflow error:", ...); throw err; }
WorkflowCatch(err, logged) ==
    [outcome |-> "raised", error |-> err, log |-> Append(logged, "error: Workflow error:")]

\* Workflow, up to the await of Promise.all: createOk and userAnswer are the
\* host's answers to createKindeAPI and to the user read
WorkflowStart(ev, createOk, userAnswer) ==
    LET started == <<"log: Token generation workflow with custom code executed">>
        idle == [calls |-> <<CreateKindeAPICall>>, user |-> undefined, pending |-> {}]
    IN  IF ~createOk
        THEN idle @@ WorkflowCatch(ApiError("createKindeAPI rejected"), started)
        ELSE IF ~IsDefined(ev.userId) \/ Get(ev.userId) = ""
        THEN idle @@ [outcome |-> "returned", error |-> NoError,
                      log |-> Append(started, "warn: No user id found in event.context.user.id")]
        ELSE LET read == [idle EXCEPT !.calls = Append(@, GetUser(ev.userId))]
             IN  IF ~userAnswer.ok
                 THEN read @@ WorkflowCatch(ApiError("management API request rejected"), started)
                 ELSE IF NoCustomerId(userAnswer.data)
                 THEN [read EXCEPT !.user = userAnswer.data]
                      @@ [outcome |-> "returned", error |-> NoError,
                          log |-> Append(started, "info: No customer ID found for user")]
                 ELSE LET customerId == CustomerIdOf(userAnswer.data)
                      IN  [calls |-> read.calls \o <<GetEntitlements(customerId), GetAgreements(customerId)>>,
                           user |-> userAnswer.data,
                           pending |-> {"entitlements", "agreements"},
                           outcome |-> "awaiting", error |-> NoError, log |-> started]

\* what the host can answer to the user read
UserRecords ==
    {undefined, Some([billing |-> undefined])}
    \cup {Some([billing |-> Some([customer_id |-> c, plan |-> "pro"])]) :
             c \in Opt({"", "cus_1"})}

UserAnswers ==
    {[ok |-> FALSE, data |-> undefined]} \cup {[ok |-> TRUE, data |-> u] : u \in UserRecords}

MaxBillingItems == 2

\* what the host can answer to a billing read: a failure, a response without
\* the array, or an array of items
ReadAnswers(item) ==
    {[ok |-> FALSE, data |-> undefined]}
    \cup {[ok |-> TRUE, data |-> d] : d \in Opt(SeqUpTo({item}, MaxBillingItems))}

BillingUserIds == Opt({"", "kp_user"})

Workflow_AddBillingDetailsToTokensB2C ==
    /\ handler = "none"
    /\ \E u \in BillingUserIds, createOk \in BOOLEAN, userAnswer \in UserAnswers :
         LET ev == [NoEvent EXCEPT !.userId = u]
             r == WorkflowStart(ev, createOk, userAnswer)
         IN  /\ handler' = "AddBillingDetailsToTokensB2C"
             /\ event' = ev
             /\ calls' = r.calls
             /\ user' = r.user
             /\ pending' = r.pending
             /\ outcome' = r.outcome
             /\ error' = r.error
             /\ log' = r.log
             /\ UNCHANGED <<env, config, denied, accessToken, idToken, completed, received>>

\* one of the two reads completes with the host's answer; Workflow resumes
\* when Promise.all settles: it rejects with the first failure and resolves
\* with the last response, and a read that completes after that is dropped
ReadCompletes(read, answer) ==
    /\ handler = "AddBillingDetailsToTokensB2C"
    /\ read \in pending
    /\ pending' = pending \ {read}
    /\ completed' = Append(completed, [read |-> read, ok |-> answer.ok])
    /\ UNCHANGED <<handler, event, env, config, calls, denied, user>>
    /\ IF outcome # "awaiting"
       THEN UNCHANGED <<outcome, error, log, accessToken, idToken, received>>
       ELSE IF ~answer.ok
       THEN LET r == WorkflowCatch(ApiError("management API request rejected"), log)
            IN  /\ outcome' = r.outcome
                /\ error' = r.error
                /\ log' = r.log
                /\ UNCHANGED <<accessToken, idToken, received>>
       ELSE LET responses == (read :> answer.data) @@ received
            IN  /\ received' = responses
                /\ IF AllFulfilled(responses)
                   THEN LET billingClaimObject == BillingClaim(user, responses)
                        IN  /\ accessToken' = SetCustomClaim(accessToken, "billingDetails", billingClaimObject)
                            /\ idToken' = SetCustomClaim(idToken, "billingDetails", billingClaimObject)
                            /\ outcome' = "returned"
                            /\ log' = Append(log, "log: billingDetails claim set on accessToken and idToken")
                            /\ UNCHANGED error
                   ELSE UNCHANGED <<outcome, error, log, accessToken, idToken>>

entitlementsRead_completes ==
    /\ "entitlements" \in pending
    /\ \E answer \in ReadAnswers("ent") : ReadCompletes("entitlements", answer)

agreementsRead_completes ==
    /\ "agreements" \in pending
    /\ \E answer \in ReadAnswers("agr") : ReadCompletes("agreements", answer)

-----------------------------------------------------------------------------
(* createOrgOnSignupWorkflow.ts, lines 1-79: CreateOrganizationOnSignUp *)

GetBusiness == [op |-> "get", endpoint |-> "business"]

\* kindeAPI.post({endpoint: `organization`, params: {name: data.business.name}})
PostOrganization(name) == [op |-> "post", endpoint |-> "organization", name |-> name]

\* kindeAPI.patch({endpoint: `organizations/${code}/properties`, ...})
PatchOrganizationProperties(code) ==
    [op |-> "patch", endpoint |-> "organizations/${orgResponse.organization.code}/properties",
     code |-> code, properties |-> [company_head_count |-> 50]]

\* catch (error) { console.error(...); // throw error; }
OrgCatch(cause, issued) ==
    [calls |-> issued, outcome |-> "returned", error |-> NoError,
     log |-> <<"error: Error creating organization on sign up: " \o cause>>]

\* what the host answers, call by call: the first call that is rejected, or a
\* response that lacks the field read from it, or "ok"
OrgAnswers ==
    {"ok", "createKindeAPI rejected", "get business rejected", "no business in response",
     "post organization rejected", "no organization in response", "patch properties rejected"}

createOrgOnSignUp(ev, answer) ==
    LET c1 == <<CreateKindeAPICall>>
        c2 == Append(c1, GetBusiness)
        c3 == Append(c2, PostOrganization("Acme"))
        c4 == Append(c3, PatchOrganizationProperties("org_1"))
    IN  IF ev.isNewUserRecordCreated # Some(TRUE) THEN Skipped
        ELSE IF answer = "createKindeAPI rejected" THEN OrgCatch(answer, c1)
        ELSE IF answer \in {"get business rejected", "no business in response"}
        THEN OrgCatch(answer, c2)
        ELSE IF answer \in {"post organization rejected", "no organization in response"}
        THEN OrgCatch(answer, c3)
        ELSE IF answer = "patch properties rejected" THEN OrgCatch(answer, c4)
        ELSE [calls |-> c4, outcome |-> "returned", error |-> NoError, log |-> <<>>]

createOrgOnSignUp_CreateOrganizationOnSignUp ==
    /\ handler = "none"
    /\ \E isNewKindeUser \in Opt(BOOLEAN), u \in UserIds, answer \in OrgAnswers :
         LET ev == [NoEvent EXCEPT !.isNewUserRecordCreated = isNewKindeUser, !.userId = u]
         IN  Invoke("CreateOrganizationOnSignUp", ev, NoEnv, createOrgOnSignUp(ev, answer))

-----------------------------------------------------------------------------
(* Specification *)

Init ==
    /\ handler = "none"
    /\ event = NoEvent
    /\ env = NoEnv
    /\ config = ShippedConfig
    /\ calls = <<>>
    /\ denied = <<>>
    /\ outcome = "idle"
    /\ error = NoError
    /\ log = <<>>
    /\ accessToken = NoCustomClaims
    /\ idToken = NoCustomClaims
    /\ user = undefined
    /\ pending = {}
    /\ completed = <<>>
    /\ received = NoResponses

Next ==
    \/ handlePostAuth_checkIPAgainstAllowlist
    \/ handlePostAuth_OktaAttributesSync_find
    \/ handlePostAuth_OktaAttributesSync_map
    \/ handlePostAuth_GoogleWorkspacePhoneSync
    \/ handlePostAuth_SamlAttributesSync
    \/ handlePostAuth_SamlAttributesSync_aliases
    \/ mapEntraIdClaimsWorkflow_full
    \/ mapEntraIdClaimsWorkflow_oauth
    \/ handlePostAuth_IdpTokenWorkflow
    \/ Workflow_AddBillingDetailsToTokensB2C
    \/ entitlementsRead_completes
    \/ agreementsRead_completes
    \/ createOrgOnSignUp_CreateOrganizationOnSignUp

Spec == Init /\ [][Next]_vars

\* one invocation of the allowlist handler on a host whose denyAccess may raise
NextDenyAccess ==
    \/ handlePostAuth_denyAccessMayRaise

SpecDenyAccess == Init /\ [][NextDenyAccess]_vars

-----------------------------------------------------------------------------
(* Claims about the IP allowlist handler *)

IPRan == handler = "checkIPAgainstAllowlist"

\* the two verdicts of an invocation that completed
Allowed == outcome = "returned" /\ denied = <<>>

DeniedWith(text) == outcome = "returned" /\ denied # <<>> /\ denied[1].text = text

\* the addresses of the model's pools that are IPv4 addresses and no sentinel,
\* listed by hand
KnownValidIPv4 == {IP_64_227_0_197, IP_8_8_8_8, IP_10_0_0_1}

AllowListIsValid(list) == list # <<>> /\ \A i \in 1..Len(list) : list[i] \in KnownValidIPv4

\* the invocation's input makes a step of the decision raise
DecisionRaises == ~AllowListIsValid(config.allowList) \/ event.request = undefined

\* C1: fail-closed.  Whenever a step of the decision raises (the allowlist does
\* not validate, or the request object is missing so that reading its ip
\* raises), the handler calls denyAccess with the "Access blocked" reason and
\* completes normally: nothing reaches the host, and the verdict is not ALLOW.
C1_FailClosed ==
    (IPRan /\ DecisionRaises) =>
        /\ DeniedWith("Access blocked due to an issue: ${errorMessage}")
        /\ Len(denied) = 1
        /\ error = NoError
        /\ ~Allowed

\* C1 witness: a valid allowlist and a missing request object: the TypeError of
\* the extraction was caught and turned into a denial
C1_Witness ==
    /\ IPRan /\ AllowListIsValid(config.allowList) /\ event.request = undefined
    /\ denied # <<>> /\ denied[1].message = RequestTypeError.text

\* the client IP the request carries: the first comma-separated token, trimmed
RequestIp == Trim(Split(Get(Get(event.request).ip), ",")[1])

HasHeader == event.request # undefined /\ Get(event.request).ip # undefined

\* C2 (as claimed): with a valid allowlist, a request whose IP is a valid IPv4
\* address that is no entry of the allowlist is denied with the reason "not in
\* the allowlist", and ALLOW happens only when the request's IP is an entry.
C2_DenyUnlessListed ==
    (IPRan /\ AllowListIsValid(config.allowList) /\ HasHeader) =>
        /\ (RequestIp \in KnownValidIPv4 /\ ~Includes(config.allowList, RequestIp))
              => DeniedWith("Access denied: IP address ${ip} is not in the allowlist.")
        /\ Allowed => Includes(config.allowList, RequestIp)

\* the verdict of the handler on ev under the invocation's configuration
Verdict(ev) ==
    LET r == CheckIPAgainstAllowlist(ev, config, DenyAccessReturns)
    IN  IF r.outcome = "returned" /\ r.denied = <<>> THEN "ALLOW" ELSE "DENY"

\* C3 (as claimed): the verdict on a header equals the verdict on its first
\* trimmed token alone, and an absent header ends in DENY.
C3_FirstTokenDecides ==
    (IPRan /\ AllowListIsValid(config.allowList) /\ event.request # undefined) =>
        /\ HasHeader =>
             /\ Allowed <=> Verdict([event EXCEPT !.request = Some([ip |-> Some(RequestIp)])]) = "ALLOW"
             /\ Allowed => Includes(config.allowList, RequestIp)
        /\ ~HasHeader => ~Allowed

\* C4: an empty allowlist, or one with an entry that is no valid IPv4 address
\* or is a sentinel, ends every request in DENY with the configuration error
\* as the reason, before the request is looked at, and nothing reaches the host.
C4_InvalidAllowListDenies ==
    (IPRan /\ ~AllowListIsValid(config.allowList)) =>
        /\ DeniedWith("Access blocked due to an issue: ${errorMessage}")
        /\ denied[1].message \in {"Allowlist must be a non-empty array.",
                                  "Invalid IP address in allowlist: ${ip}"}
        /\ denied[1].message = "Invalid IP address in allowlist: ${ip}"
              => (Includes(config.allowList, denied[1].arg) /\ denied[1].arg \notin KnownValidIPv4)
        /\ Len(denied) = 1
        /\ error = NoError
        /\ Len(log) = 2

\* C4 witness: the allowlist holds "999.1.1.1" beside a valid entry, the request
\* comes from that valid entry, and it is denied for the configuration
C4_Witness ==
    /\ IPRan /\ config.allowList = <<IP_64_227_0_197, IP_999_1_1_1>> /\ ~config.testFalsePositive
    /\ HasHeader /\ RequestIp = IP_64_227_0_197
    /\ DeniedWith("Access blocked due to an issue: ${errorMessage}")
    /\ denied[1].arg = IP_999_1_1_1

-----------------------------------------------------------------------------
(* Claims about the SAML sync handlers *)

SamlHandlers == {"OktaAttributesSync_find", "OktaAttributesSync_map", "GoogleWorkspacePhoneSync",
                 "SamlAttributesSync", "SamlAttributesSync_aliases"}

MapHandlers == {"OktaAttributesSync_map", "SamlAttributesSync", "SamlAttributesSync_aliases"}

\* the invoked handler on another event, the management API answering
Rerun(ev) ==
    CASE handler = "OktaAttributesSync_find" -> OktaAttributesSync_find(ev, env, "ok")
      [] handler = "OktaAttributesSync_map" -> OktaAttributesSync_map(ev, env, "ok")
      [] handler = "GoogleWorkspacePhoneSync" -> GoogleWorkspacePhoneSync(ev, env, "ok")
      [] handler = "SamlAttributesSync" -> SamlAttributesSync(ev, "ok")
      [] handler = "SamlAttributesSync_aliases" -> SamlAttributesSync_aliases(ev, "ok")

\* the event passed the handler's gate and carries attribute statements
GateOpen ==
    /\ HasAttributeStatements(event)
    /\ CASE handler \in {"OktaAttributesSync_find", "OktaAttributesSync_map"} ->
              env.OKTA_CONNECTION_ID \notin {undefined, Some("")}
              /\ event.connectionId = env.OKTA_CONNECTION_ID
         [] handler = "GoogleWorkspacePhoneSync" ->
              env.GOOGLE_WORKSPACE_CONNECTION_ID \notin {undefined, Some("")}
              /\ event.connectionId = env.GOOGLE_WORKSPACE_CONNECTION_ID
         [] OTHER -> Get(event.provider).protocol = Some("saml")

EventStatements == Get(Get(event.provider).attributeStatements)

\* the assertion's attributes in document order
EventAttributes == FlatAttributes(EventStatements)

\* the request, if one was issued, shows the batch
BatchVisible == outcome = "returned" \/ Len(calls) = 2

Batch == IF Len(calls) = 2 THEN calls[2].properties ELSE EmptyProperties

\* names that differ from name only in letter case and outer whitespace: upper
\* case, lower case without padding, and padded on both sides
NameVariants(name) ==
    {ToUpperCase(name), Trim(ToLowerCase(name)), <<"\t">> \o name \o <<" ", "\n">>}

\* the event with the name of attribute i of statement st replaced
WithName(ev, st, i, name) ==
    LET provider == Get(ev.provider)
        statements == Get(provider.attributeStatements)
        attributes == Get(statements[st].attributes)
        renamed == [attributes EXCEPT ![i] = [name |-> Some(name), values |-> attributes[i].values]]
    IN  [ev EXCEPT !.provider =
            Some([provider EXCEPT !.attributeStatements =
                    Some([statements EXCEPT ![st] = [attributes |-> Some(renamed)]])])]

\* C5: in every SAML sync handler, replacing the name of any attribute of the
\* assertion by a variant that differs only in letter case and leading or
\* trailing whitespace leaves the outbound calls, and so the property batch,
\* unchanged.
C5_NameLookupNormalized ==
    (handler \in SamlHandlers /\ outcome = "returned" /\ HasAttributeStatements(event)) =>
        \A st \in 1..Len(EventStatements) :
            IsDefined(EventStatements[st].attributes) =>
                \A i \in 1..Len(Get(EventStatements[st].attributes)) :
                    LET attr == Get(EventStatements[st].attributes)[i]
                    IN  IsDefined(attr.name) =>
                            \A name \in NameVariants(Get(attr.name)) :
                                Rerun(WithName(event, st, i, name)).calls = calls

\* C5 witness: the only attribute is named " Groups " and its values were
\* written under the key groups
C5_Witness ==
    /\ handler = "OktaAttributesSync_find" /\ GateOpen /\ outcome = "returned"
    /\ Len(EventAttributes) = 1 /\ EventAttributes[1].name = Some(NAME_Groups)
    /\ DOMAIN Batch = {"groups"}

\* the normalized map the handler built from the event
EventMap == samlAttributesMap(EventStatements)

\* C6: in the handler with alias lists, every rule writes the value of the first
\* alias, in samlNames order, that the normalized map holds a non-empty list
\* for (all values joined for a multi-valued rule, the first value otherwise),
\* whatever the later aliases hold and whatever the order of the attributes;
\* a rule none of whose aliases is in the map writes no key.
C6_FirstAliasWins ==
    (handler = "SamlAttributesSync_aliases" /\ GateOpen /\ BatchVisible) =>
        \A r \in 1..Len(attributeSyncConfig_aliases) :
            LET rule == attributeSyncConfig_aliases[r]
                present == {j \in 1..Len(rule.samlNames) :
                               /\ rule.samlNames[j] \in DOMAIN EventMap
                               /\ Len(EventMap[rule.samlNames[j]]) > 0}
            IN  IF present = {} THEN rule.kindeKey \notin DOMAIN Batch
                ELSE LET first == CHOOSE j \in present : \A k \in present : j <= k
                         values == EventMap[rule.samlNames[first]]
                     IN  /\ rule.kindeKey \in DOMAIN Batch
                         /\ Batch[rule.kindeKey] =
                              IF rule.multiValue THEN Join(values, COMMA) ELSE values[1]

\* C6 witness: the alias phone comes first in the assertion and holds "+1",
\* phone_number comes second and holds "a", and "a" was written
C6_Witness ==
    /\ handler = "SamlAttributesSync_aliases" /\ GateOpen /\ Len(calls) = 2
    /\ Len(EventAttributes) = 2
    /\ EventAttributes[1].name = Some(NAME_Phone)
    /\ EventAttributes[2].name = Some(STR_phone_number)
    /\ {STR_phone, STR_phone_number} \subseteq DOMAIN EventMap
    /\ EventMap[STR_phone] = << VAL_plus1 >>
    /\ EventMap[STR_phone_number] = << <<"a">> >>
    /\ Batch["phone_number"] = <<"a">>

\* the names the invoked handler accepts for the groups rule
GroupNames ==
    IF handler = "SamlAttributesSync_aliases" THEN {STR_groups, STR_group} ELSE {STR_groups}

\* the attributes of the event that carry one of those names
GroupAttributes ==
    {i \in 1..Len(EventAttributes) :
        \E n \in GroupNames : NormalizedName(EventAttributes[i]) = Some(n)}

\* C7: the groups property, when written, is the "," join of all the non-empty
\* trimmed values of an attribute named groups, in source order; it is written
\* when the assertion's one groups attribute has at least one such value, and
\* it is absent when no groups attribute has any.
C7_GroupsJoined ==
    (handler \in SamlHandlers \ {"GoogleWorkspacePhoneSync"} /\ GateOpen /\ BatchVisible) =>
        /\ "groups" \in DOMAIN Batch =>
             \E i \in GroupAttributes :
                /\ TrimmedValues(EventAttributes[i]) # <<>>
                /\ Batch["groups"] = Join(TrimmedValues(EventAttributes[i]), COMMA)
        /\ (/\ Cardinality(GroupAttributes) = 1
            /\ \A i \in GroupAttributes : TrimmedValues(EventAttributes[i]) # <<>>)
             => "groups" \in DOMAIN Batch

\* C7 witness: one groups attribute with the values "+1", " " and " a " was
\* written as "+1,a"
C7_Witness ==
    /\ handler = "OktaAttributesSync_map" /\ GateOpen /\ Len(calls) = 2
    /\ Cardinality(GroupAttributes) = 1
    /\ \A i \in GroupAttributes : Len(Get(EventAttributes[i].values)) = 3
    /\ Batch["groups"] = <<"+", "1", ",", "a">>

\* the normalized names the assertion's attributes carry
EventNames ==
    {Get(NormalizedName(EventAttributes[i])) :
        i \in {j \in 1..Len(EventAttributes) : IsTruthy(NormalizedName(EventAttributes[j]))}}

Occurrences(name) ==
    {i \in 1..Len(EventAttributes) : NormalizedName(EventAttributes[i]) = Some(name)}

Last(indices) == CHOOSE i \in indices : \A j \in indices : j <= i

\* the map's values for a name, none when it has no entry
MapEntry(name) == IF name \in DOMAIN EventMap THEN EventMap[name] ELSE <<>>

\* C8 (as claimed): the map entry of a name holds the values of the last
\* attribute of that name, also when that attribute has no non-empty value.
C8_LastOccurrenceWins ==
    (handler \in MapHandlers /\ GateOpen) =>
        \A name \in EventNames :
            MapEntry(name) = TrimmedValues(EventAttributes[Last(Occurrences(name))])

\* C8 (amended): the map entry of a name holds the values of the last attribute
\* of that name that has a non-empty trimmed value, never a union and never an
\* earlier such attribute's; a name none of whose attributes has one has no entry.
C8_LastNonEmptyOccurrenceWins ==
    (handler \in MapHandlers /\ GateOpen) =>
        /\ \A name \in EventNames :
             LET filled == {i \in Occurrences(name) : TrimmedValues(EventAttributes[i]) # <<>>}
             IN  IF filled = {} THEN name \notin DOMAIN EventMap
                 ELSE /\ name \in DOMAIN EventMap
                      /\ EventMap[name] = TrimmedValues(EventAttributes[Last(filled)])
        /\ DOMAIN EventMap \subseteq EventNames

\* C8 witness: two attributes named phone_number in two statements, "a" first
\* and "+1" second: the map holds "+1" alone and "+1" was written
C8_Witness ==
    /\ handler = "OktaAttributesSync_map" /\ GateOpen /\ Len(calls) = 2
    /\ Len(EventStatements) = 2 /\ Len(EventAttributes) = 2
    /\ Occurrences(STR_phone_number) = {1, 2}
    /\ TrimmedValues(EventAttributes[1]) = << <<"a">> >>
    /\ TrimmedValues(EventAttributes[2]) = << VAL_plus1 >>
    /\ EventMap[STR_phone_number] = << VAL_plus1 >>
    /\ Batch["phone_number"] = VAL_plus1

-----------------------------------------------------------------------------
(* Claims about every property-sync handler *)

EntraHandlers == {"MapEntraIdClaims_full", "MapEntraIdClaims"}

\* the event carries nothing a batch could be resolved from: no assertion or no
\* attribute with a non-empty value (SAML), no claim at all (Entra)
EmptySource ==
    IF handler \in SamlHandlers
    THEN \/ ~HasAttributeStatements(event)
         \/ \A i \in 1..Len(EventAttributes) : TrimmedValues(EventAttributes[i]) = <<>>
    ELSE \/ event.provider = undefined
         \/ Get(event.provider).claims = undefined
         \/ \A n \in DOMAIN Get(Get(event.provider).claims) :
               Get(Get(event.provider).claims)[n] = AbsentClaim

\* C9 (as claimed): a property-sync handler whose event yields an empty batch
\* returns normally and issues no management API call, createKindeAPI included.
C9_EmptyBatchIsNoOp ==
    (handler \in SamlHandlers \cup EntraHandlers /\ EmptySource) =>
        outcome = "returned" /\ calls = <<>>

\* C10 (as claimed): every key of a batch handed to the management API has a
\* non-empty string value.
C10_NoEmptyValueWritten ==
    handler \in SamlHandlers \cup EntraHandlers =>
        \A c \in 1..Len(calls) :
            calls[c].op \in {"patch", "put"} =>
                \A key \in DOMAIN calls[c].properties : calls[c].properties[key] # <<>>

-----------------------------------------------------------------------------
(* Claims about the Entra handlers *)

EntraPatches == {c \in 1..Len(calls) : calls[c].op = "patch"}

\* the keys the claim mappings and the groups claim can write
ClaimDerivedKeys ==
    {claimMappings_full[i].key : i \in 1..Len(claimMappings_full)}
    \cup {claimMappings[i].key : i \in 1..Len(claimMappings)}
    \cup {"entra_groups"}

\* C11: every patch an Entra handler issues carries entra_last_sync together
\* with at least one claim-derived key; none carries the timestamp alone.
C11_TimestampNeverAlone ==
    handler \in EntraHandlers =>
        \A c \in EntraPatches :
            /\ "entra_last_sync" \in DOMAIN calls[c].properties
            /\ DOMAIN calls[c].properties \cap ClaimDerivedKeys # {}
            /\ DOMAIN calls[c].properties \subseteq ClaimDerivedKeys \cup {"entra_last_sync"}

\* C11 witness: a patch with the timestamp and exactly one claim-derived key
C11_Witness ==
    /\ handler = "MapEntraIdClaims" /\ outcome = "returned" /\ EntraPatches = {2}
    /\ DOMAIN calls[2].properties = {"kp_usr_first_name", "entra_last_sync"}

-----------------------------------------------------------------------------
(* Claims about the gates *)

\* the protocol a protocol-gated handler expects
ExpectedProtocol ==
    IF handler \in {"SamlAttributesSync", "SamlAttributesSync_aliases"} THEN "saml" ELSE "oauth2"

ProtocolGated ==
    {"IdpTokenWorkflow", "SamlAttributesSync", "SamlAttributesSync_aliases"} \cup EntraHandlers

\* the protocol the event declares, undefined when it has no provider
EventProtocol ==
    IF IsDefined(event.provider) THEN Get(event.provider).protocol ELSE undefined

NoSideEffect ==
    /\ outcome = "returned"
    /\ calls = <<>> /\ denied = <<>>
    /\ accessToken = NoCustomClaims /\ idToken = NoCustomClaims

\* C12 (as claimed): a protocol-gated handler invoked with an event whose
\* protocol is not exactly the expected one - missing provider, missing
\* protocol and case variants included - returns with no API call, no token
\* claim and no exception.
C12_ProtocolGateRejects ==
    (handler \in ProtocolGated /\ EventProtocol # Some(ExpectedProtocol)) => NoSideEffect

\* the provider identifier of the event, "" when it has none
EventProviderName ==
    IF IsDefined(event.provider) /\ IsDefined(Get(event.provider).provider)
    THEN Get(Get(event.provider).provider) ELSE <<>>

\* the handler went on to the user-id check and the claims
PassedProviderGate ==
    \/ outcome = "raised" /\ error = MissingUserIdError /\ calls = <<>>
    \/ log # <<>> /\ log[1] = "log: Processing Entra ID OAuth2 claims for user"

RejectedByProviderGate ==
    /\ NoSideEffect
    /\ log = <<"log: Connection provider is not an allowed Microsoft/Entra ID provider, skipping">>

\* C13: an Entra handler invoked with protocol "oauth2" goes past the provider
\* gate exactly when the provider identifier, trimmed and lower-cased, is one
\* of microsoft, entra, azure, azure_ad, azuread; otherwise it returns with no
\* API call and no exception, also when the name contains an allowed one.
C13_ProviderGateExact ==
    (handler \in EntraHandlers /\ EventProtocol = Some("oauth2")) =>
        IF ToLowerCase(Trim(EventProviderName)) \in
             {STR_microsoft, STR_entra, STR_azure, STR_azure_ad, STR_azuread}
        THEN PassedProviderGate /\ ~RejectedByProviderGate
        ELSE RejectedByProviderGate /\ ~PassedProviderGate

\* C13 witness: "not-microsoft" with protocol oauth2 and a user was rejected
C13_Witness ==
    /\ handler = "MapEntraIdClaims_full" /\ EventProtocol = Some("oauth2")
    /\ EventProviderName = STR_not_microsoft /\ event.userId = Some("kp_user")
    /\ RejectedByProviderGate

ConnectionGated ==
    {"OktaAttributesSync_find", "OktaAttributesSync_map", "GoogleWorkspacePhoneSync"}

\* the connection-ID variable the invoked handler reads
ConfiguredConnectionId ==
    IF handler = "GoogleWorkspacePhoneSync" THEN env.GOOGLE_WORKSPACE_CONNECTION_ID
    ELSE env.OKTA_CONNECTION_ID

\* C14: a connection-gated handler issues a call only when its connection-ID
\* variable is present and non-empty and equal to the event's connectionId;
\* with the variable absent or empty every event is rejected with no side
\* effect, an event with an undefined or empty connectionId included.
C14_ConnectionGateFailClosed ==
    handler \in ConnectionGated =>
        /\ calls # <<>> =>
             /\ ConfiguredConnectionId \notin {undefined, Some("")}
             /\ event.connectionId = ConfiguredConnectionId
        /\ ConfiguredConnectionId \in {undefined, Some("")} => NoSideEffect
        /\ event.connectionId # ConfiguredConnectionId => NoSideEffect

\* C14 witness: no variable, no connectionId, an assertion with a phone number
\* and a user: the handler returned without a call
C14_Witness ==
    /\ handler = "OktaAttributesSync_map"
    /\ ConfiguredConnectionId = undefined /\ event.connectionId = undefined
    /\ HasAttributeStatements(event) /\ STR_phone_number \in DOMAIN EventMap
    /\ event.userId = Some("kp_user")
    /\ NoSideEffect

-----------------------------------------------------------------------------
(* Claims about the token handlers *)

\* the email claim of the identity provider's ID token
IdpEmail ==
    IF IsDefined(event.provider) /\ IsDefined(Get(event.provider).claims)
    THEN ClaimOf(Get(Get(event.provider).claims), "email") ELSE AbsentClaim

HasClaim(token, name, value) == name \in DOMAIN token /\ token[name] = value

\* C15 (as claimed): after IdpTokenWorkflow ran on an event with protocol
\* "oauth2" and a truthy email claim, idp_email equal to that email is set on
\* the access token and on the ID token.
C15_EmailOnBothTokens ==
    (handler = "IdpTokenWorkflow" /\ EventProtocol = Some("oauth2")
       /\ IdpEmail.kind = "string" /\ IdpEmail.str # <<>>) =>
        /\ HasClaim(accessToken, "idp_email", IdpEmail)
        /\ HasClaim(idToken, "idp_email", IdpEmail)

-----------------------------------------------------------------------------
(* Claims about failures *)

BillingRan == handler = "AddBillingDetailsToTokensB2C"

\* the handlers that put the user id into their outbound request
UserIdHandlers == SamlHandlers \cup EntraHandlers \cup {"AddBillingDetailsToTokensB2C"}

\* with a user id the invoked handler would have used it: the event passes
\* the handler's gates and, for a SAML handler, yields a non-empty batch
EligibleForRequest ==
    CASE handler \in SamlHandlers ->
           Rerun([event EXCEPT !.userId = Some("kp_user")]).calls # <<>>
      [] handler \in EntraHandlers ->
           EventProtocol = Some("oauth2") /\ ProviderGate(event.provider)
      [] OTHER -> TRUE

\* the requests issued through the API client (createKindeAPI only makes the client)
Requests_issued == {c \in 1..Len(calls) : calls[c].op # "createKindeAPI"}

\* C16 (as claimed): an eligible event without a user id makes the handler
\* raise, and no management API request is issued.
C16_MissingUserIdIsFatal ==
    (handler \in UserIdHandlers /\ event.userId = undefined /\ EligibleForRequest) =>
        outcome = "raised" /\ Requests_issued = {}

\* the log lines a rejected management API call leaves when it is caught
RejectionLogged ==
    \E i \in 1..Len(log) :
        log[i] \in {"error: Error creating organization on sign up: " \o cause :
                      cause \in {"createKindeAPI rejected", "get business rejected",
                                 "post organization rejected", "patch properties rejected"}}

\* a management API call of this invocation was rejected
ApiCallFailed ==
    \/ error \in {ApiError("createKindeAPI rejected"), ApiError("management API request rejected")}
    \/ RejectionLogged

\* C17 (as claimed): in every handler a rejected management API call is raised
\* to the host, and no endpoint is requested twice in one invocation.
C17_FailureIsRaisedNoRetry ==
    /\ ApiCallFailed => outcome = "raised"
    /\ \A i, j \in 1..Len(calls) : calls[i] = calls[j] => i = j

-----------------------------------------------------------------------------
(* Claims about the billing handler *)

BillingClaimSet == "billingDetails" \in DOMAIN accessToken \/ "billingDetails" \in DOMAIN idToken

ReadFailed == \E i \in 1..Len(completed) : ~completed[i].ok

BothReadsSucceeded == Len(completed) = 2 /\ ~ReadFailed

WorkflowErrorLines == {i \in 1..Len(log) : log[i] = "error: Workflow error:"}

\* C18: the two reads are in flight together; whatever the order of their
\* completions, billingDetails is set only once both have succeeded, on both
\* tokens, with a content fixed by the two responses; when either read fails
\* the handler raises one failure and no token gets the claim.
C18_BothReadsBeforeClaim ==
    (BillingRan /\ Len(calls) = 4) =>
        /\ calls[3] = GetEntitlements(CustomerIdOf(user))
        /\ calls[4] = GetAgreements(CustomerIdOf(user))
        /\ completed = <<>> => pending = {"entitlements", "agreements"}
        /\ BillingClaimSet <=> BothReadsSucceeded
        /\ BothReadsSucceeded =>
             /\ outcome = "returned" /\ pending = {}
             /\ accessToken = idToken
             /\ accessToken["billingDetails"] =
                  [customer_id |-> Get(CustomerIdOf(user)),
                   user_billing |-> Get(BillingOf(user)),
                   entitlements |-> ensureArray(received["entitlements"]),
                   agreements |-> ensureArray(received["agreements"])]
        /\ ReadFailed =>
             /\ outcome = "raised"
             /\ error = ApiError("management API request rejected")
             /\ Cardinality(WorkflowErrorLines) = 1
        /\ (~ReadFailed /\ pending # {}) => outcome = "awaiting"

\* C18 witness: the agreements read completed first, the entitlements read
\* second, and the claim holds both responses
C18_Witness ==
    /\ BillingRan
    /\ completed = <<[read |-> "agreements", ok |-> TRUE], [read |-> "entitlements", ok |-> TRUE]>>
    /\ HasClaim(idToken, "billingDetails",
                [customer_id |-> "cus_1",
                 user_billing |-> [customer_id |-> Some("cus_1"), plan |-> "pro"],
                 entitlements |-> <<"ent">>, agreements |-> <<"agr">>])

-----------------------------------------------------------------------------
(* Claims about single-valued rules and duplicate attributes *)

\* the single-valued rules of the invoked handler: target key and source names
SingleValuedRules ==
    CASE handler = "GoogleWorkspacePhoneSync" ->
           {[key |-> "phone_number", names |-> {STR_phone}]}
      [] handler = "SamlAttributesSync_aliases" ->
           {[key |-> "phone_number", names |-> {STR_phone_number, STR_phone, STR_mobilephone}],
            [key |-> "user_type", names |-> {STR_user_type, STR_usertype}]}
      [] OTHER ->
           {[key |-> "phone_number", names |-> {STR_phone_number}],
            [key |-> "user_type", names |-> {STR_user_type}]}

\* the attributes of the event a rule's names match
RuleAttributes(rule) ==
    {i \in 1..Len(EventAttributes) :
        \E n \in rule.names : NormalizedName(EventAttributes[i]) = Some(n)}

\* the value as the request carries it: the Google handler puts it in a URL
AsWritten(value) ==
    IF handler = "GoogleWorkspacePhoneSync" THEN encodeURIComponent(value) ELSE value

\* the property a single-valued rule should write from attribute i: the first
\* of its non-empty trimmed values, no key when it has none
WrittenFrom(rule, i) ==
    IF TrimmedValues(EventAttributes[i]) = <<>> THEN rule.key \notin DOMAIN Batch
    ELSE /\ rule.key \in DOMAIN Batch
         /\ Batch[rule.key] = AsWritten(TrimmedValues(EventAttributes[i])[1])

\* C19 (as claimed): in every SAML sync handler a single-valued rule writes the
\* first non-empty trimmed value of the one attribute it matches, so a blank
\* or missing first raw value is skipped for the second.
C19_FirstNonEmptyValue ==
    (handler \in SamlHandlers /\ GateOpen /\ BatchVisible) =>
        \A rule \in SingleValuedRules :
            Cardinality(RuleAttributes(rule)) = 1 =>
                \A i \in RuleAttributes(rule) : WrittenFrom(rule, i)

\* C20 (as claimed): in the find-based handlers, when several attributes have
\* the name a single-valued rule looks for, the property is derived from the
\* last of them in document order.
C20_FindLastOccurrenceWins ==
    (handler \in {"OktaAttributesSync_find", "GoogleWorkspacePhoneSync"}
       /\ GateOpen /\ BatchVisible) =>
        \A rule \in SingleValuedRules :
            Cardinality(RuleAttributes(rule)) > 1 =>
                WrittenFrom(rule, Last(RuleAttributes(rule)))

-----------------------------------------------------------------------------
(* Organization creation on sign-up: what a normal return leaves behind *)

OrgRan == handler = "CreateOrganizationOnSignUp"

OrgErrorLine(cause) == "error: Error creating organization on sign up: " \o cause

\* the POST of the organization was issued and the host answered it with an
\* organization (every later step reads orgResponse.organization.code)
OrganizationCreated ==
    /\ \E i \in DOMAIN calls : calls[i] = PostOrganization("Acme")
    /\ log # <<OrgErrorLine("post organization rejected")>>
    /\ log # <<OrgErrorLine("no organization in response")>>

\* the company_head_count patch was issued and the host accepted it
PropertyPatchApplied ==
    /\ \E i \in DOMAIN calls : calls[i] = PatchOrganizationProperties("org_1")
    /\ log # <<OrgErrorLine("patch properties rejected")>>

\* C21: whenever createOrgOnSignUp completes without raising for a new user,
\* either no organization was created or the organization was created and its
\* company_head_count patch was applied: no invocation ends normally with the
\* organization created and the patch failed or not issued.
C21_NoPartialCommit ==
    (OrgRan /\ outcome = "returned" /\ event.isNewUserRecordCreated = Some(TRUE))
        => (~OrganizationCreated \/ PropertyPatchApplied)

-----------------------------------------------------------------------------
(* Entra handlers: the gates come before the user-id check *)

\* the event declares protocol "oauth2" and a provider of the allowlist
EntraEligible ==
    /\ EventProtocol = Some("oauth2")
    /\ ToLowerCase(Trim(EventProviderName)) \in
         {STR_microsoft, STR_entra, STR_azure, STR_azure_ad, STR_azuread}

\* event.context.user.id is missing or the empty string
UserIdAbsent == event.userId \in {undefined, Some("")}

\* C22: in the Entra handlers an ineligible event (protocol not "oauth2" or
\* provider not in the allowlist) is a no-op return, never an exception, also
\* when the user identifier is absent; an eligible event with an absent user
\* identifier raises before createKindeAPI or any patch is invoked.
C22_GatesBeforeUserIdCheck ==
    handler \in EntraHandlers =>
        /\ ~EntraEligible => (NoSideEffect /\ error = NoError)
        /\ (EntraEligible /\ UserIdAbsent) =>
              (outcome = "raised" /\ error = MissingUserIdError /\ calls = <<>>)

\* C22 witness: an event with protocol "oauth2", provider "not-microsoft" and
\* no user id was handed to the full-mapping handler, which returned
C22_Witness ==
    /\ handler = "MapEntraIdClaims_full"
    /\ EventProtocol = Some("oauth2") /\ EventProviderName = STR_not_microsoft
    /\ event.userId = undefined
    /\ outcome = "returned" /\ calls = <<>>

-----------------------------------------------------------------------------
(* IP allowlist handler: how often denyAccess is invoked *)

\* C23: in the IP allowlist handler denyAccess is invoked at most once per
\* invocation: an invocation ends either in ALLOW with no denyAccess call or in
\* DENY with exactly one call carrying one reason, on every path, the path
\* where the denyAccess call of the try block raises into the catch included.
C23_DenyAccessAtMostOnce ==
    IPRan =>
        /\ Len(denied) <= 1
        /\ (outcome = "returned" /\ denied = <<>>) \/ Len(denied) = 1

-----------------------------------------------------------------------------
(* Billing claims: both tokens or neither *)

BillingReads ==
    {i \in DOMAIN calls : calls[i].op = "get" /\ calls[i].endpoint # GetUser("").endpoint}

\* the user read was answered, and the answer carries no customer id
CustomerIdAbsent(userAnswer) == userAnswer.ok /\ CustomerIdOf(userAnswer.data) \in {undefined, Some("")}

\* C24: in the billing-claims handler billingDetails is on the access token
\* exactly when it is on the ID token, with the same value; it is set only when
\* the user id is present, the user's customer_id is non-empty and both reads
\* succeeded; when the customer_id is absent the handler returns normally
\* without issuing the entitlements or agreements reads and without a claim.
C24_ClaimOnBothTokensOrNone ==
    BillingRan =>
        /\ "billingDetails" \in DOMAIN accessToken <=> "billingDetails" \in DOMAIN idToken
        /\ accessToken = idToken
        /\ BillingClaimSet =>
             /\ event.userId = Some("kp_user")
             /\ CustomerIdOf(user) = Some("cus_1")
             /\ accessToken["billingDetails"].customer_id = "cus_1"
             /\ BothReadsSucceeded /\ outcome = "returned"
        /\ CustomerIdOf(user) \in {undefined, Some("")} =>
             (BillingReads = {} /\ ~BillingClaimSet /\ pending = {})
        /\ event.userId = Some("kp_user") =>
             \A userAnswer \in UserAnswers :
                 CustomerIdAbsent(userAnswer) =>
                     LET r == WorkflowStart(event, TRUE, userAnswer)
                     IN  /\ r.outcome = "returned" /\ r.error = NoError
                         /\ r.calls = <<CreateKindeAPICall, GetUser(event.userId)>>
                         /\ r.pending = {}

\* C24 witness: the user read answered with an empty customer_id; the handler
\* returned after that read, and no token carries the claim
C24_Witness ==
    /\ BillingRan /\ event.userId = Some("kp_user")
    /\ CustomerIdOf(user) = Some("")
    /\ outcome = "returned" /\ Len(calls) = 2
    /\ accessToken = NoCustomClaims /\ idToken = NoCustomClaims

-----------------------------------------------------------------------------
(* The two Okta implementations side by side *)

OktaHandlers == {"OktaAttributesSync_find", "OktaAttributesSync_map"}

\* the outbound calls of the two implementations on the invocation's event and
\* environment, for a host that answers api
SameOutboundCalls(api) ==
    LET found == OktaAttributesSync_find(event, env, api)
        mapped == OktaAttributesSync_map(event, env, api)
    IN  found.calls = mapped.calls /\ found.outcome = mapped.outcome

\* C25: the find-based and the map-based Okta sync are observationally
\* equivalent: for every event and every value of OKTA_CONNECTION_ID both
\* issue the same outbound call - none, or one patch to the same endpoint with
\* the same properties - duplicate attribute names and blank first values
\* included.
C25_OktaImplementationsEquivalent ==
    handler \in OktaHandlers =>
        \A api \in ApiOutcomes : SameOutboundCalls(api)

=============================================================================
